---- MODULE Spec2Model ----
(***************************************************************************)
(* Water Assets Dashboard (src/water_assets_dashboard.py).                 *)
(*                                                                         *)
(* The program is a Streamlit script: every change of a sidebar widget     *)
(* reruns the whole script top to bottom.  A rerun reloads the cached CSV, *)
(* normalises the survey dates, rebuilds the option lists, applies the     *)
(* five filters and recomputes every summary.  The state of the model is   *)
(* the cached file, the widgets' values and what the last rerun computed.  *)
(*                                                                         *)
(* Missing values: a missing string cell is the value NA, a missing number *)
(* or date is the empty tuple; a present number or date v is <<v>>.        *)
(* The calendar is abstract: a month has DaysPerMonth days, a raw date     *)
(* cell is <<month, day>> and a parsed date is a day number.               *)
(***************************************************************************)
EXTENDS Integers, Sequences, FiniteSets, TLC

VARIABLES
    csv,                 \* the file as load_data() caches it (raw cells)
    df,                  \* the data frame of the last rerun (dates parsed)
    selected_state,      \* selectbox 'Select State'
    district_list,       \* options of 'Select District' in the last rerun
    selected_district,   \* selectbox 'Select District'
    selected_asset_type, \* multiselect 'Select Asset Type': the picked options
    selected_status,     \* multiselect 'Select Status': the picked options
    date_range,          \* date_input 'Select Date Range': a tuple of 0 to 2 days
    filtered_df,         \* the filtered data frame
    total_assets,        \* metric "Total Assets"
    total_area,          \* metric "Total Area (ha)"
    avg_ndvi,            \* metric "Average NDVI"
    avg_ndwi,            \* metric "Average NDWI"
    asset_dist,          \* asset type distribution
    status_dist,         \* status distribution
    monthly_assets,      \* assets by month
    state_assets,        \* states by asset count
    top_states,          \* state_assets.head(10), what the bar chart shows
    state_asset_type     \* the heatmap's cross-tabulation, or the warning

vars == <<csv, df, selected_state, district_list, selected_district,
          selected_asset_type, selected_status, date_range, filtered_df, total_assets, total_area,
          avg_ndvi, avg_ndwi, asset_dist, status_dist, monthly_assets,
          state_assets, top_states, state_asset_type>>

----------------------------------------------------------------------------
(* Bounds of the model *)

MaxRows == 2

MaxSummaryRows == 3

NumStates == 11

DaysPerMonth == 2

(* Program constants *)

TopN == 10

All == "All"

NA == "<NA>"

NaN == <<>>

NaT == <<>>

----------------------------------------------------------------------------
(* Python's order on the strings of the model (code point order: upper     *)
(* case before lower case), which sorted() uses.                           *)

PyOrder == <<"A", "All", "B", "C", "D", "E", "F", "G", "H", "I", "J", "K",
             "L", "M", "X", "Y", "active", "inactive", "pond", "well">>

PyRank(s) == CHOOSE i \in 1..Len(PyOrder) : PyOrder[i] = s

PyLess(a, b) == PyRank(a) < PyRank(b)

Range(s) == {s[i] : i \in 1..Len(s)}

RECURSIVE SortedSeq(_)
SortedSeq(S) ==
    IF S = {} THEN <<>>
    ELSE LET m == CHOOSE x \in S : \A y \in S \ {x} : PyLess(x, y)
         IN  <<m>> \o SortedSeq(S \ {m})

(* Series.unique(): the distinct values of a column (NaN included). *)
unique(d, col) == {d[i][col] : i \in 1..Len(d)}

(* sorted(list): comparing a float NaN with a str raises TypeError. *)
SortedRaises(S) == NA \in S /\ Cardinality(S) >= 2

sorted(S) == IF S = {NA} THEN <<NA>> ELSE SortedSeq(S)

----------------------------------------------------------------------------
(* Loading *)

load_data(file) == file

to_datetime(cell) ==
    IF cell = <<>> THEN NaT ELSE <<cell[1] * DaysPerMonth + cell[2]>>

ParseDates(d) ==
    [i \in 1..Len(d) |->
        [d[i] EXCEPT !.last_survey_date = to_datetime(d[i].last_survey_date)]]

Days(d) == {d[i].last_survey_date[1] :
              i \in {j \in 1..Len(d) : d[j].last_survey_date # NaT}}

SetMin(S) == CHOOSE x \in S : \A y \in S : x <= y

SetMax(S) == CHOOSE x \in S : \A y \in S : x >= y

min_date(d) == SetMin(Days(d))

max_date(d) == SetMax(Days(d))

----------------------------------------------------------------------------
(* Sidebar option lists *)

state_list(d) == <<All>> \o sorted(unique(d, "state"))

StateRows(d, st) == SelectSeq(d, LAMBDA r : r.state = st)

(* The district options taken from the whole file, whatever the state. *)
DistrictList_allstates(d, st) ==
    IF st # All THEN <<All>> \o sorted(unique(d, "district")) ELSE <<All>>

DistrictList(d, st) ==
    IF st # All THEN <<All>> \o sorted(unique(StateRows(d, st), "district"))
    ELSE <<All>>

asset_types(d) == <<All>> \o sorted(unique(d, "asset_type"))

statuses(d) == <<All>> \o sorted(unique(d, "status"))

----------------------------------------------------------------------------
(* Apply filters *)

FilterState(f, st) ==
    IF st # All THEN SelectSeq(f, LAMBDA r : r.state = st) ELSE f

FilterDistrict(f, di) ==
    IF di # All THEN SelectSeq(f, LAMBDA r : r.district = di) ELSE f

FilterAssetType(f, sel) ==
    IF All \notin sel THEN SelectSeq(f, LAMBDA r : r.asset_type \in sel) ELSE f

FilterStatus(f, sel) ==
    IF All \notin sel THEN SelectSeq(f, LAMBDA r : r.status \in sel) ELSE f

DateGe(a, b) == a # NaT /\ a[1] >= b

DateLe(a, b) == a # NaT /\ a[1] <= b

(* The date filter with the end of the range left out. *)
FilterDate_exclusive(f, dr) ==
    IF Len(dr) = 2
    THEN SelectSeq(f, LAMBDA r : DateGe(r.last_survey_date, dr[1])
                                 /\ DateLe(r.last_survey_date, dr[2] - 1))
    ELSE f

FilterDate(f, dr) ==
    IF Len(dr) = 2
    THEN SelectSeq(f, LAMBDA r : DateGe(r.last_survey_date, dr[1])
                                 /\ DateLe(r.last_survey_date, dr[2]))
    ELSE f

copy(d) == d

ApplyFilters(d, st, di, atsel, stsel, dr) ==
    FilterDate(
      FilterStatus(
        FilterAssetType(
          FilterDistrict(
            FilterState(d, st), di), atsel), stsel), dr)

----------------------------------------------------------------------------
(* Summaries *)

Present(f, col) == {i \in 1..Len(f) : f[i][col] # NaN}

RECURSIVE SumOver(_, _, _)
SumOver(f, col, I) ==
    IF I = {} THEN 0
    ELSE LET i == CHOOSE j \in I : TRUE
         IN  f[i][col][1] + SumOver(f, col, I \ {i})

(* Series.sum(): missing values are skipped, the sum of nothing is 0. *)
sum(f, col) == SumOver(f, col, Present(f, col))

(* Series.mean(): missing values are skipped; NaN when nothing is left.    *)
(* A defined mean is kept as the exact fraction <<numerator, denominator>>.*)
(* The mean with the missing values counted in the denominator. *)
mean_countall(f, col) ==
    IF Present(f, col) = {} THEN NaN
    ELSE <<SumOver(f, col, Present(f, col)), Len(f)>>

mean(f, col) ==
    IF Present(f, col) = {} THEN NaN
    ELSE <<SumOver(f, col, Present(f, col)), Cardinality(Present(f, col))>>

CountOf(f, col, v) == Cardinality({i \in 1..Len(f) : f[i][col] = v})

(* The orders a sort by count descending can leave the keys K in: pandas   *)
(* sorts value_counts() by count only and does not fix the order of keys   *)
(* with equal counts.                                                      *)
RECURSIVE CountOrders(_, _, _)
CountOrders(f, col, K) ==
    IF K = {} THEN {<<>>}
    ELSE LET mx  == SetMax({CountOf(f, col, k) : k \in K})
             top == {k \in K : CountOf(f, col, k) = mx}
         IN  UNION {{<<[value |-> k, count |-> mx]>> \o s :
                        s \in CountOrders(f, col, K \ {k})} : k \in top}

Reverse(s) == [i \in 1..Len(s) |-> s[Len(s) + 1 - i]]

(* value_counts(ascending=True): the smallest count first. *)
value_counts_ascending(f, col) ==
    {Reverse(s) : s \in CountOrders(f, col, unique(f, col) \ {NA})}

(* Series.value_counts().reset_index(): NaN keys are dropped (dropna=True).*)
value_counts(f, col) == CountOrders(f, col, unique(f, col) \ {NA})

(* head() that keeps one entry too few. *)
head_short(s, n) == SubSeq(s, 1, IF Len(s) < n THEN Len(s) ELSE n - 1)

head(s, n) == SubSeq(s, 1, IF Len(s) < n THEN Len(s) ELSE n)

MonthOf(day) == day \div DaysPerMonth

(* set_index('last_survey_date').resample('M').size(): one bin per month   *)
(* from the first to the last dated record, empty months counted 0.        *)
resample_size(f) ==
    IF Days(f) = {} THEN <<>>
    ELSE LET lo == MonthOf(SetMin(Days(f)))
             hi == MonthOf(SetMax(Days(f)))
         IN  [k \in 1..(hi - lo + 1) |->
                [month |-> lo + k - 1,
                 count |-> Cardinality({i \in 1..Len(f) :
                              /\ f[i].last_survey_date # NaT
                              /\ MonthOf(f[i].last_survey_date[1]) = lo + k - 1})]]

(* pd.crosstab(rows, cols): records with a missing key are dropped, the    *)
(* table is indexed by the sorted keys that are left, absent pairs are 0.  *)
crosstab(f, rcol, ccol) ==
    LET kept == SelectSeq(f, LAMBDA r : r[rcol] # NA /\ r[ccol] # NA)
        rs   == unique(kept, rcol)
        cs   == unique(kept, ccol)
    IN  [kind    |-> "crosstab",
         index   |-> SortedSeq(rs),
         columns |-> SortedSeq(cs),
         cells   |-> [p \in rs \X cs |->
                        Cardinality({i \in 1..Len(kept) :
                            kept[i][rcol] = p[1] /\ kept[i][ccol] = p[2]})]]

Warning == [kind |-> "warning"]

(* The heatmap without the guard on an empty frame. *)
Heatmap_unguarded(f) == crosstab(f, "state", "asset_type")

Heatmap(f) == IF Len(f) > 0 THEN crosstab(f, "state", "asset_type") ELSE Warning

----------------------------------------------------------------------------
(* Inputs: the files the dashboard is started on *)

Row(st, di, at, su, dt, ar, nv, nw) ==
    [state |-> st, district |-> di, asset_type |-> at, status |-> su,
     last_survey_date |-> dt, area_ha |-> ar, ndvi |-> nv, ndwi |-> nw]

(* Rows for the sessions that exercise the filters: two states that share  *)
(* a district, an asset type and a status that are the string "All", and a *)
(* row without a survey date.                                              *)
Pool ==
    { Row("A", "X", "well", "active", <<0, 0>>, <<2>>, <<1>>, <<0>>),
      Row("A", "Y", "well", "All",    <<0, 1>>, <<3>>, <<0>>, <<1>>),
      Row("B", "Y", "All",  "All",    <<>>,     NaN,   NaN,   NaN) }

(* Rows for the sessions that exercise the summaries: missing numbers, a   *)
(* true zero mean, two months, and a row whose categories are missing.     *)
SummaryPool ==
    { Row("A", "X", "well", "active",   <<0, 0>>, <<2>>, <<1>>,  <<0>>),
      Row("A", "X", "pond", "inactive", <<1, 0>>, <<3>>, <<-1>>, NaN),
      Row("B", "Y", "well", "active",   <<0, 1>>, <<1>>, NaN,    <<1>>),
      Row("A", "X", NA,     NA,         <<0, 0>>, NaN,   NaN,    NaN) }

StateNames == <<"A", "B", "C", "D", "E", "F", "G", "H", "I", "J", "K", "L", "M">>

RECURSIVE ManyStatesUpTo(_)
ManyStatesUpTo(k) ==
    IF k = 0 THEN <<>>
    ELSE ManyStatesUpTo(k - 1) \o
         [i \in 1..(IF k = 1 THEN 1 ELSE k - 1) |->
            Row(StateNames[k], "X", "well", "active", <<0, 0>>, <<1>>, <<0>>, <<0>>)]

(* A file with more states than the bar chart shows: the first two states  *)
(* have one row each, state k > 1 has k - 1 rows.                          *)
ManyStates == ManyStatesUpTo(NumStates)

SeqsUpTo(S, n) == UNION {[1..k -> S] : k \in 1..n}

(* The script runs through on a file only if no sorted() raises and some   *)
(* survey date is present (min_date and max_date are dates).               *)
Loadable(file) ==
    /\ ~SortedRaises(unique(file, "state"))
    /\ ~SortedRaises(unique(file, "asset_type"))
    /\ ~SortedRaises(unique(file, "status"))
    /\ Days(ParseDates(file)) # {}

Datasets == {file \in SeqsUpTo(Pool, MaxRows) : Loadable(file)}

SummaryDatasets ==
    {file \in SeqsUpTo(SummaryPool, MaxSummaryRows) : Loadable(file)} \cup {ManyStates}

(* What st.date_input can return: nothing, the first day only, or both.    *)
DateRanges(d) ==
    LET D == min_date(d)..max_date(d)
    IN  {<<>>} \cup {<<a>> : a \in D} \cup {r \in D \X D : r[1] <= r[2]}

----------------------------------------------------------------------------
(* One run of the script on the widgets' values *)

Outputs(d, f, st, di, atsel, stsel, dr) ==
    /\ selected_state' = st
    /\ district_list' = DistrictList(d, st)
    /\ selected_district' = di
    /\ selected_asset_type' = atsel
    /\ selected_status' = stsel
    /\ date_range' = dr
    /\ filtered_df' = f
    /\ total_assets' = Len(f)
    /\ total_area' = sum(f, "area_ha")
    /\ avg_ndvi' = mean(f, "ndvi")
    /\ avg_ndwi' = mean(f, "ndwi")
    /\ asset_dist' \in value_counts(f, "asset_type")
    /\ status_dist' \in value_counts(f, "status")
    /\ monthly_assets' = resample_size(f)
    /\ state_assets' \in value_counts(f, "state")
    /\ top_states' = head(state_assets', TopN)
    /\ state_asset_type' = Heatmap(f)

(* The script with the filters applied to df itself instead of a copy. *)
Script_inplace(file, st, di, atsel, stsel, dr) ==
    LET d == ParseDates(load_data(file))
        f == ApplyFilters(d, st, di, atsel, stsel, dr)
    IN  /\ df' = f
        /\ Outputs(d, f, st, di, atsel, stsel, dr)
        /\ UNCHANGED csv

Script(file, st, di, atsel, stsel, dr) ==
    LET d == ParseDates(load_data(file))
        f == ApplyFilters(copy(d), st, di, atsel, stsel, dr)
    IN  /\ df' = d
        /\ Outputs(d, f, st, di, atsel, stsel, dr)
        /\ UNCHANGED csv

(* The first run on a file: every widget at its default. *)
FirstRun(file) ==
    LET d == ParseDates(load_data(file))
        f == ApplyFilters(d, All, All, {All}, {All}, <<min_date(d), max_date(d)>>)
    IN  /\ csv = file
        /\ df = d
        /\ selected_state = All
        /\ district_list = DistrictList(d, All)
        /\ selected_district = All
        /\ selected_asset_type = {All}
        /\ selected_status = {All}
        /\ date_range = <<min_date(d), max_date(d)>>
        /\ filtered_df = f
        /\ total_assets = Len(f)
        /\ total_area = sum(f, "area_ha")
        /\ avg_ndvi = mean(f, "ndvi")
        /\ avg_ndwi = mean(f, "ndwi")
        /\ asset_dist \in value_counts(f, "asset_type")
        /\ status_dist \in value_counts(f, "status")
        /\ monthly_assets = resample_size(f)
        /\ state_assets \in value_counts(f, "state")
        /\ top_states = head(state_assets, TopN)
        /\ state_asset_type = Heatmap(f)

Init == \E file \in Datasets : FirstRun(file)

InitSummary == \E file \in SummaryDatasets : FirstRun(file)

(* The district selectbox after a rerun with state st: its value is always *)
(* one of its options; a value that is no longer an option falls back to   *)
(* index 0, a value that still is one may be kept or reset.                *)
DistrictAfter(d, st) ==
    {All} \cup ({selected_district} \cap Range(DistrictList(d, st)))

Toggle(sel, o) == IF o \in sel THEN sel \ {o} ELSE sel \cup {o}

SelectState ==
    \E st \in Range(state_list(df)) \ {selected_state} :
      \E di \in DistrictAfter(df, st) :
        Script(csv, st, di, selected_asset_type, selected_status, date_range)

SelectDistrict ==
    \E di \in Range(district_list) \ {selected_district} :
        Script(csv, selected_state, di, selected_asset_type, selected_status,
               date_range)

(* A multiselect reruns the script on every option added or removed. *)
SelectAssetType ==
    \E o \in Range(asset_types(df)) :
        Script(csv, selected_state, selected_district,
               Toggle(selected_asset_type, o), selected_status, date_range)

SelectStatus ==
    \E o \in Range(statuses(df)) :
        Script(csv, selected_state, selected_district, selected_asset_type,
               Toggle(selected_status, o), date_range)

SelectDateRange ==
    \E dr \in DateRanges(df) \ {date_range} :
        Script(csv, selected_state, selected_district, selected_asset_type,
               selected_status, dr)

Next ==
    \/ SelectState
    \/ SelectDistrict
    \/ SelectAssetType
    \/ SelectStatus
    \/ SelectDateRange

Spec == Init /\ [][Next]_vars

(* Sessions over the summary files: the state, asset type and status       *)
(* widgets are used, the district and the date range stay at the default.  *)
NextSummary ==
    \/ SelectState
    \/ SelectAssetType
    \/ SelectStatus

SpecSummary == InitSummary /\ [][NextSummary]_vars

----------------------------------------------------------------------------
(* Properties.  What a property expects is written out from the records of *)
(* df and filtered_df, not through the operators of the script.            *)

Rows(d) == 1..Len(d)

KthOf(I, k) == CHOOSE i \in I : Cardinality({j \in I : j <= i}) = k

(* The records of d at the positions I, in the order of d. *)
SubseqAt(d, I) == [k \in 1..Cardinality(I) |-> d[KthOf(I, k)]]

StateOk(r)    == selected_state # All => r.state = selected_state

DistrictOk(r) == selected_district # All => r.district = selected_district

TypeOk(r)     == All \notin selected_asset_type => r.asset_type \in selected_asset_type

StatusOk(r)   == All \notin selected_status => r.status \in selected_status

DateOk(r) ==
    Len(date_range) = 2 =>
        /\ r.last_survey_date # NaT
        /\ date_range[1] <= r.last_survey_date[1]
        /\ r.last_survey_date[1] <= date_range[2]

(* C1: the filtered dataset is exactly the records of the dataset, in the  *)
(* dataset's order, that satisfy every active criterion at once (state,    *)
(* district, asset type membership, status membership, and the date range  *)
(* with both ends included); it is empty when no record does.              *)
C1_FilterIsExactSubsequence ==
    filtered_df =
        SubseqAt(df, {i \in Rows(df) :
            /\ StateOk(df[i])
            /\ DistrictOk(df[i])
            /\ TypeOk(df[i])
            /\ StatusOk(df[i])
            /\ DateOk(df[i])})

(* All five criteria are active, one record is kept and another dropped,   *)
(* and the kept record lies on both ends of the date range.                *)
C1_Witness ==
    /\ selected_state # All
    /\ selected_district # All
    /\ All \notin selected_asset_type
    /\ All \notin selected_status
    /\ Len(date_range) = 2
    /\ Len(filtered_df) = 1
    /\ Len(df) = 2
    /\ filtered_df[1].last_survey_date = <<date_range[1]>>
    /\ filtered_df[1].last_survey_date = <<date_range[2]>>

Unconstrained ==
    /\ selected_state = All
    /\ selected_district = All
    /\ selected_asset_type = {All}
    /\ selected_status = {All}
    /\ date_range = <<min_date(df), max_date(df)>>

(* C2: with every filter unconstrained and the date range at its default   *)
(* (the first and the last survey date of the dataset), the filtered       *)
(* dataset is the whole dataset, records without a survey date included.   *)
C2_UnconstrainedIsIdentity == Unconstrained => filtered_df = df

Concrete(sel) == sel \ {All}

(* C3: a selection of asset types (or statuses) that is the "All" marker   *)
(* does not restrict the result, and a selection that holds concrete       *)
(* values restricts it to exactly those values, also when "All" is picked  *)
(* together with them.                                                     *)
C3_SentinelSkippedConcreteRestricts ==
    /\ selected_asset_type = {All} =>
          filtered_df = SubseqAt(df, {i \in Rows(df) :
              StateOk(df[i]) /\ DistrictOk(df[i]) /\ StatusOk(df[i]) /\ DateOk(df[i])})
    /\ Concrete(selected_asset_type) # {} =>
          \A i \in Rows(filtered_df) :
              filtered_df[i].asset_type \in Concrete(selected_asset_type)
    /\ selected_status = {All} =>
          filtered_df = SubseqAt(df, {i \in Rows(df) :
              StateOk(df[i]) /\ DistrictOk(df[i]) /\ TypeOk(df[i]) /\ DateOk(df[i])})
    /\ Concrete(selected_status) # {} =>
          \A i \in Rows(filtered_df) :
              filtered_df[i].status \in Concrete(selected_status)

DistrictsOf(d, st) == {d[i].district : i \in {j \in Rows(d) : d[j].state = st}}

(* C4: the district options are {All} and the districts of the records of  *)
(* the selected state, and only "All" when no state is selected; the       *)
(* selected district is "All" or a district of a record of the selected    *)
(* state, so the state and district criteria together always keep a record.*)
C4_DistrictBelongsToState ==
    /\ Range(district_list) = {All} \cup DistrictsOf(df, selected_state)
    /\ district_list = <<All>> <=> selected_state = All
    /\ selected_district \in Range(district_list)
    /\ \/ selected_district = All
       \/ \E i \in Rows(df) : /\ df[i].state = selected_state
                              /\ df[i].district = selected_district
    /\ \E i \in Rows(df) : StateOk(df[i]) /\ DistrictOk(df[i])

(* A district is selected that another selectable state does not have: the *)
(* next change to that state meets the stale district.                     *)
C4_Witness ==
    /\ selected_state # All
    /\ selected_district # All
    /\ \E i \in Rows(df) :
          /\ df[i].state # selected_state
          /\ selected_district \notin DistrictsOf(df, df[i].state)

RECURSIVE CountSum(_, _)
CountSum(dist, n) ==
    IF n = 0 THEN 0 ELSE CountSum(dist, n - 1) + dist[n].count

(* C5: the counts of the asset type distribution, and those of the status  *)
(* distribution, add up to the number of records of the filtered dataset,  *)
(* also when a record's asset type or status is missing.                   *)
C5_GroupCountsSumToTotal ==
    /\ CountSum(asset_dist, Len(asset_dist)) = Len(filtered_df)
    /\ CountSum(status_dist, Len(status_dist)) = Len(filtered_df)

Observed(f, col) == {f[i][col] : i \in Rows(f)}

RECURSIVE CellSum(_, _)
CellSum(cells, P) ==
    IF P = {} THEN 0
    ELSE LET p == CHOOSE q \in P : TRUE
         IN  cells[p] + CellSum(cells, P \ {p})

(* C6: the state by asset type table has one cell for every pair of a      *)
(* state and an asset type observed in the filtered dataset, a cell holds  *)
(* the number of records with that pair (0 when there is none), and the    *)
(* cells add up to the number of records of the filtered dataset.          *)
C6_CrosstabCoversProductAndSums ==
    state_asset_type.kind = "crosstab" =>
        LET cells == state_asset_type.cells
            P     == Observed(filtered_df, "state") \X Observed(filtered_df, "asset_type")
        IN  /\ DOMAIN cells = P
            /\ \A p \in P :
                  cells[p] = Cardinality({i \in Rows(filtered_df) :
                                /\ filtered_df[i].state = p[1]
                                /\ filtered_df[i].asset_type = p[2]})
            /\ CellSum(cells, DOMAIN cells) = Len(filtered_df)

RECURSIVE ValueSum(_, _, _)
ValueSum(f, col, n) ==
    IF n = 0 THEN 0
    ELSE ValueSum(f, col, n - 1) + (IF f[n][col] = NaN THEN 0 ELSE f[n][col][1])

ValueCount(f, col) == Cardinality({i \in Rows(f) : f[i][col] # NaN})

MeanIs(avg, f, col) ==
    /\ avg = NaN <=> ValueCount(f, col) = 0
    /\ avg # NaN => /\ Len(avg) = 2
                    /\ avg[1] = ValueSum(f, col, Len(f))
                    /\ avg[2] = ValueCount(f, col)
                    /\ avg[2] > 0

(* C7: the NDVI mean, and the NDWI mean, is the undefined value (which no  *)
(* defined mean equals, a mean of 0 included) exactly when the filtered    *)
(* dataset is empty or every value of the field is missing; otherwise it   *)
(* is the sum of the values present divided by their number.               *)
C7_MeanSkipsMissing ==
    /\ MeanIs(avg_ndvi, filtered_df, "ndvi")
    /\ MeanIs(avg_ndwi, filtered_df, "ndwi")

(* Filtered to one state: a defined NDVI mean of 0 over two records, and   *)
(* an NDWI mean over the one of them whose NDWI is present.                *)
C7_Witness ==
    /\ selected_state # All
    /\ Len(filtered_df) = 2
    /\ avg_ndvi = <<0, 2>>
    /\ avg_ndwi # NaN
    /\ avg_ndwi[2] = 1

(* C8: on an empty filtered dataset every summary has its empty or zero    *)
(* value (count 0, area 0, undefined means, empty distributions, no        *)
(* monthly bin) and the cross-tabulation is replaced by the warning; the   *)
(* warning is shown in no other case.                                      *)
C8_EmptySummaries ==
    /\ Len(filtered_df) = 0 =>
          /\ total_assets = 0
          /\ total_area = 0
          /\ avg_ndvi = NaN
          /\ avg_ndwi = NaN
          /\ asset_dist = <<>>
          /\ status_dist = <<>>
          /\ state_assets = <<>>
          /\ top_states = <<>>
          /\ monthly_assets = <<>>
          /\ state_asset_type = Warning
    /\ state_asset_type = Warning => Len(filtered_df) = 0

(* The filters have emptied a dataset that has records. *)
C8_Witness ==
    /\ Len(filtered_df) = 0
    /\ Len(df) > 0
    /\ state_asset_type = Warning

Values(dist) == {dist[i].value : i \in Rows(dist)}

ListsEachOnce(dist, f, col) ==
    /\ Values(dist) = Observed(f, col) \ {NA}
    /\ Len(dist) = Cardinality(Values(dist))
    /\ \A i \in Rows(dist) :
          dist[i].count = Cardinality({j \in Rows(f) : f[j][col] = dist[i].value})

CountDescending(dist) ==
    \A i \in Rows(dist) : \A j \in Rows(dist) :
        i < j => dist[i].count >= dist[j].count

TiesByValue(dist) ==
    \A i \in Rows(dist) : \A j \in Rows(dist) :
        (i < j /\ dist[i].count = dist[j].count) => PyLess(dist[i].value, dist[j].value)

FirstN(s, n) == [i \in 1..(IF Len(s) < n THEN Len(s) ELSE n) |-> s[i]]

(* C9 as stated: the asset type, status and state sequences are ordered by *)
(* count descending and, among equal counts, by value ascending; the top   *)
(* states are the first TopN entries of the state sequence.                *)
C9_OrderedByCountThenValue ==
    /\ CountDescending(asset_dist) /\ TiesByValue(asset_dist)
    /\ CountDescending(status_dist) /\ TiesByValue(status_dist)
    /\ CountDescending(state_assets) /\ TiesByValue(state_assets)
    /\ top_states = FirstN(state_assets, TopN)

(* C9 as amended: the asset type, status and state sequences list each     *)
(* value that is not missing once, with its number of records, ordered by  *)
(* count descending (the order among equal counts is left open); the top   *)
(* states are the first TopN entries of the state sequence.                *)
C9_OrderedByCount ==
    /\ ListsEachOnce(asset_dist, filtered_df, "asset_type")
    /\ ListsEachOnce(status_dist, filtered_df, "status")
    /\ ListsEachOnce(state_assets, filtered_df, "state")
    /\ CountDescending(asset_dist)
    /\ CountDescending(status_dist)
    /\ CountDescending(state_assets)
    /\ top_states = FirstN(state_assets, TopN)

(* More states than the chart shows, with different counts, and two states *)
(* of equal count that are not in ascending order.                         *)
C9_Witness ==
    /\ Len(state_assets) > TopN
    /\ Len(top_states) = TopN
    /\ state_assets[1].count > state_assets[2].count
    /\ \E i \in Rows(state_assets) : \E j \in Rows(state_assets) :
          /\ i < j
          /\ state_assets[i].count = state_assets[j].count
          /\ PyLess(state_assets[j].value, state_assets[i].value)

(* C10: no rerun changes the loaded dataset: the cached file and the data  *)
(* frame (records, order, field values) are the same after every change of *)
(* a filter as before it.                                                  *)
C10_DatasetNeverChanges == [][csv' = csv /\ df' = df]_vars

(* A rerun has produced a proper subset of the dataset. *)
C10_Witness ==
    /\ ~Unconstrained
    /\ Len(filtered_df) > 0
    /\ Len(filtered_df) < Len(df)
    /\ df = ParseDates(csv)

====
